---- MODULE Spec2Model ----
(***************************************************************************)
(* Model of train_fast_loader.py: the GPTDataset windowing, the training   *)
(* loop (evaluation, checkpointing, gradient accumulation, epoch           *)
(* reshuffling) run by one process per rank, and crash / resume.           *)
(***************************************************************************)
EXTENDS Integers, Sequences, FiniteSets, TLC

VARIABLES
    cfg,            \* the configuration of the run (globals of lines 38-78, 85-103)
    ckpt,           \* out_dir/ckpt.pt: NoCkpt or [present, iter_num, best_val_loss]
    iter_num,       \* per rank
    best_val_loss,  \* per rank
    pc,             \* per rank: position of the process in the script
    micro_step,     \* per rank: loop variable of the accumulation loop
    current_epoch,  \* per rank: local current_epoch of the outer iteration
    sampler_epoch,  \* per rank: train_loader.sampler.epoch
    train_pos,      \* per rank: batches already drawn from train_iter
    seeds,          \* per rank: history, the sampler epoch that seeded each pass of train_iter
    XY,             \* per rank: the in-flight batch <<pass, index>>
    bwd,            \* per rank: history, the sync flag of each backward pass of the window
    training,       \* per rank: model.training
    opt_steps,      \* per rank: history, optimizer steps taken by this process
    evals,          \* per rank: history, calls of estimate_loss by this process
    last_eval,      \* per rank: history, batches drawn per split by the last estimate_loss
    losses,         \* losses['val'] of the last estimate_loss, 0 before the first
    crash_iter,     \* history: iter_num of the primary when the run last crashed, -1 if never
    crashes,        \* number of crashes so far
    data,           \* GPTDataset.data
    block_size,     \* GPTDataset.block_size
    idx,            \* the index last given to __getitem__
    item            \* what __getitem__ returned for it

trainVars == <<cfg, ckpt, iter_num, best_val_loss, pc, micro_step, current_epoch,
               sampler_epoch, train_pos, seeds, XY, bwd, training, opt_steps, evals,
               last_eval, losses, crash_iter, crashes>>
dataVars == <<data, block_size, idx, item>>
vars == <<trainVars, dataVars>>

NoCkpt == [present |-> FALSE, iter_num |-> 0, best_val_loss |-> 0]
NoBatch == <<0, 0>>
NoDraws == [train |-> 0, val |-> 0]
NoItem == [kind |-> "none", x |-> <<>>, y |-> <<>>]

----------------------------------------------------------------------------
(* Bounds *)

MaxCorpus == 5
MaxBlock == 3
MaxToken == 1
MaxWorld == 2
MaxAccum == 2
MaxBatches == 2
MaxIters == 2
MaxEvalInterval == 2
MaxLoss == 2
MaxCkptIter == 1
MaxCrashes == 1
eval_iters == 2
val_batches == 1

InitBestValLoss == 1000000000

----------------------------------------------------------------------------
(* GPTDataset *)

\* Python/numpy slice bound: a negative bound counts from the end, then clamps to [0, n].
SliceBound(i, n) ==
    IF i < 0 THEN (IF i + n < 0 THEN 0 ELSE i + n)
    ELSE (IF i > n THEN n ELSE i)

\* d[a:b] on a one-dimensional array (0-based a, b; d is a 1-based sequence).
Slice(d, a, b) ==
    LET n == Len(d)
        s == SliceBound(a, n)
        e == SliceBound(b, n)
    IN  IF s >= e THEN <<>> ELSE [i \in 1..(e - s) |-> d[s + i]]

\* Faulty variant: the length without the off-by-one fix.
NumSequencesUnfixed(d, bs) == Len(d) - bs + 1

\* self.num_sequences = len(self.data) - self.block_size - 1
NumSequences(d, bs) == Len(d) - bs - 1

\* __len__
DatasetLen == NumSequences(data, block_size)

\* __getitem__: two slices, never an exception.
GetItemOf(d, bs, i) ==
    [kind |-> "window", x |-> Slice(d, i, i + bs), y |-> Slice(d, i + 1, i + 1 + bs)]

Corpora == UNION {[1..n -> 0..MaxToken] : n \in 1..MaxCorpus}

DataIdle == /\ data = <<0>>
            /\ block_size = 1
            /\ idx = 0
            /\ item = NoItem

DataInit == /\ data \in Corpora
            /\ block_size \in 1..MaxBlock
            /\ idx = 0
            /\ item = NoItem

\* A caller that respects __len__ (the DataLoader's samplers draw from range(len)).
GetValid(i) ==
    /\ i \in 0..(DatasetLen - 1)
    /\ idx' = i
    /\ item' = GetItemOf(data, block_size, i)
    /\ UNCHANGED <<data, block_size>>
    /\ UNCHANGED trainVars

\* A direct call with any index.
GetAny(i) ==
    /\ i \notin 0..(DatasetLen - 1)
    /\ idx' = i
    /\ item' = GetItemOf(data, block_size, i)
    /\ UNCHANGED <<data, block_size>>
    /\ UNCHANGED trainVars

----------------------------------------------------------------------------
(* Configuration *)

ddp == cfg.ddp
ddp_world_size == cfg.world
gradient_accumulation_steps == cfg.accum   \* per process, after the division of line 99
NumBatches == cfg.batches                  \* len(train_loader), drop_last=True
max_iters == cfg.max_iters
eval_interval == cfg.eval_interval
eval_only == cfg.eval_only
always_save_checkpoint == cfg.always_save
init_from == cfg.init_from

Ranks == 0..(ddp_world_size - 1)
master_process(r) == r = 0
Losses == 1..MaxLoss

Configs ==
    [ddp : BOOLEAN, world : 1..MaxWorld, accum : 1..MaxAccum, batches : 1..MaxBatches,
     max_iters : 0..MaxIters, eval_interval : 1..MaxEvalInterval, eval_only : BOOLEAN,
     always_save : BOOLEAN, init_from : {"scratch", "resume", "gpt2"}]

Checkpoints == [present : {TRUE}, iter_num : 1..MaxCkptIter, best_val_loss : Losses]

Min(a, b) == IF a < b THEN a ELSE b

----------------------------------------------------------------------------
(* estimate_loss *)

\* The loop `for k in range(eval_iters)` over one split's own iterator loader_iter:
\* st.pos batches of the pass are drawn, st.epoch is the split's sampler epoch.
RECURSIVE DrawBatches(_, _, _, _)
DrawBatches(k, st, len, r) ==
    IF k = eval_iters THEN st
    ELSE LET nxt == IF st.pos < len
                    THEN [st EXCEPT !.pos = @ + 1, !.drawn = @ + 1]
                    ELSE [pos |-> 1,
                          epoch |-> IF ddp THEN iter_num[r] + k + 1 ELSE st.epoch,
                          drawn |-> st.drawn + 1]
         IN  DrawBatches(k + 1, nxt, len, r)

SplitDraw(len, ep, r) ==
    DrawBatches(0, [pos |-> 0, epoch |-> IF ddp THEN iter_num[r] ELSE ep, drawn |-> 0], len, r)

\* Faulty variant: estimate_loss with X, Y and the iterator taken from the training loop's globals.
EstimateLossSharedIter(r) ==
    LET tr == SplitDraw(NumBatches, sampler_epoch[r], r)
        va == SplitDraw(val_batches, 0, r)
    IN  [training |-> TRUE,
         sampler_epoch |-> IF ddp THEN iter_num[r] \div NumBatches ELSE tr.epoch,
         train_pos |-> tr.pos,
         XY |-> <<0, tr.pos>>,
         draws |-> [train |-> tr.drawn, val |-> va.drawn]]

\* What a call of estimate_loss by rank r leaves behind: X, Y and loader_iter are
\* locals of the function, iter_num is only read.
EstimateLoss(r) ==
    LET tr == SplitDraw(NumBatches, sampler_epoch[r], r)
        va == SplitDraw(val_batches, 0, r)
    IN  [training |-> TRUE,
         sampler_epoch |-> IF ddp THEN iter_num[r] \div NumBatches ELSE tr.epoch,
         train_pos |-> train_pos[r],
         XY |-> XY[r],
         draws |-> [train |-> tr.drawn, val |-> va.drawn]]

----------------------------------------------------------------------------
(* Start of a process *)

AllRanks(w, v) == [r \in 0..(w - 1) |-> v]

\* Faulty variant: the resumed run keeps the fresh iter_num.
ResumeIterNumZero(c) == 0

\* iter_num = checkpoint['iter_num']
ResumeIterNum(c) == c.iter_num

\* best_val_loss = checkpoint['best_val_loss']
ResumeBestValLoss(c) == c.best_val_loss

TrainInit ==
    /\ cfg \in {c \in Configs : c.world = IF c.ddp THEN MaxWorld ELSE 1}
    /\ ckpt \in IF cfg.init_from = "resume" THEN Checkpoints ELSE {NoCkpt}
    /\ iter_num = AllRanks(cfg.world, IF cfg.init_from = "resume" THEN ResumeIterNum(ckpt) ELSE 0)
    /\ best_val_loss = AllRanks(cfg.world, IF cfg.init_from = "resume"
                                           THEN ResumeBestValLoss(ckpt) ELSE InitBestValLoss)
    /\ pc = AllRanks(cfg.world, "start")
    /\ micro_step = AllRanks(cfg.world, 0)
    /\ current_epoch = AllRanks(cfg.world, 0)
    /\ sampler_epoch = AllRanks(cfg.world, 0)
    /\ train_pos = AllRanks(cfg.world, 0)
    /\ seeds = AllRanks(cfg.world, <<>>)
    /\ XY = AllRanks(cfg.world, NoBatch)
    /\ bwd = AllRanks(cfg.world, <<>>)
    /\ training = AllRanks(cfg.world, TRUE)
    /\ opt_steps = AllRanks(cfg.world, 0)
    /\ evals = AllRanks(cfg.world, 0)
    /\ last_eval = AllRanks(cfg.world, NoDraws)
    /\ losses = 0
    /\ crash_iter = -1
    /\ crashes = 0

\* train_iter = iter(train_loader); X, Y = next(train_iter)
Startup(r) ==
    /\ pc[r] = "start"
    /\ seeds' = [seeds EXCEPT ![r] = Append(@, sampler_epoch[r])]
    /\ train_pos' = [train_pos EXCEPT ![r] = 1]
    /\ XY' = [XY EXCEPT ![r] = <<1, 1>>]
    /\ pc' = [pc EXCEPT ![r] = "head"]
    /\ UNCHANGED <<cfg, ckpt, iter_num, best_val_loss, micro_step, current_epoch,
                   sampler_epoch, bwd, training, opt_steps, evals, last_eval, losses, crash_iter, crashes>>
    /\ UNCHANGED dataVars

----------------------------------------------------------------------------
(* The training loop *)

\* current_epoch = iter_num // len(train_loader)
EpochOf(it) == it \div NumBatches

\* if iter_num % eval_interval == 0 and master_process
EvalDue(r) == iter_num[r] % eval_interval = 0 /\ master_process(r)

\* if iter_num == 0 and eval_only: break
EvalOnlyBreak(r) == iter_num[r] = 0 /\ eval_only

\* Top of the while loop: current_epoch, the sampler's epoch, then the tests of
\* lines 304 and 328 when the process does not evaluate in this iteration.
IterBegin(r) ==
    /\ pc[r] = "head"
    /\ current_epoch' = [current_epoch EXCEPT ![r] = EpochOf(iter_num[r])]
    /\ sampler_epoch' = [sampler_epoch EXCEPT ![r] = IF ddp THEN EpochOf(iter_num[r]) ELSE @]
    /\ pc' = [pc EXCEPT ![r] = IF EvalDue(r) THEN "eval"
                               ELSE IF EvalOnlyBreak(r) THEN "done" ELSE "micro"]
    /\ micro_step' = [micro_step EXCEPT ![r] = 0]
    /\ UNCHANGED <<cfg, ckpt, iter_num, best_val_loss, train_pos, seeds, XY,
                   bwd, training, opt_steps, evals, last_eval, losses,
                   crash_iter, crashes>>
    /\ UNCHANGED dataVars

\* losses = estimate_loss()
EstimateLossCall(r) ==
    /\ pc[r] = "eval"
    /\ LET est == EstimateLoss(r)
       IN  /\ training' = [training EXCEPT ![r] = est.training]
           /\ sampler_epoch' = [sampler_epoch EXCEPT ![r] = est.sampler_epoch]
           /\ train_pos' = [train_pos EXCEPT ![r] = est.train_pos]
           /\ XY' = [XY EXCEPT ![r] = est.XY]
           /\ last_eval' = [last_eval EXCEPT ![r] = est.draws]
    /\ \E v \in Losses : losses' = v
    /\ evals' = [evals EXCEPT ![r] = @ + 1]
    /\ pc' = [pc EXCEPT ![r] = "save"]
    /\ UNCHANGED <<cfg, ckpt, iter_num, best_val_loss, micro_step, current_epoch, seeds,
                   bwd, opt_steps, crash_iter, crashes>>
    /\ UNCHANGED dataVars

\* if losses['val'] < best_val_loss or always_save_checkpoint
SaveDue(r) == losses < best_val_loss[r] \/ always_save_checkpoint

\* The rest of the evaluation branch: best_val_loss, torch.save, the eval_only break.
SaveCheckpoint(r) ==
    /\ pc[r] = "save"
    /\ best_val_loss' = [best_val_loss EXCEPT ![r] = IF SaveDue(r) THEN losses ELSE @]
    /\ ckpt' = IF SaveDue(r) /\ iter_num[r] > 0
               THEN [present |-> TRUE, iter_num |-> iter_num[r], best_val_loss |-> losses]
               ELSE ckpt
    /\ pc' = [pc EXCEPT ![r] = IF EvalOnlyBreak(r) THEN "done" ELSE "micro"]
    /\ micro_step' = [micro_step EXCEPT ![r] = 0]
    /\ UNCHANGED <<cfg, iter_num, current_epoch, sampler_epoch, train_pos, seeds, XY, bwd,
                   training, opt_steps, evals, last_eval, losses, crash_iter,
                   crashes>>
    /\ UNCHANGED dataVars

\* Faulty variant: the flag raised on the first micro-step instead of the last.
SyncFlagFirst(ms) == ms = 0

\* model.require_backward_grad_sync = (micro_step == gradient_accumulation_steps - 1)
SyncFlag(ms) == ms = gradient_accumulation_steps - 1

\* Faulty variant: the epoch offset by the rank, like the seed of line 95.
ReshuffleEpochPerRank(r) == current_epoch[r] + 1 + r

\* except StopIteration: current_epoch += 1
ReshuffleEpoch(r) == current_epoch[r] + 1

\* One micro-step of rank r: the flag, the forward pass, the prefetch of the next
\* batch (restarting the iterator when it is exhausted), the backward pass.
MicroResult(r) ==
    LET stop == train_pos[r] >= NumBatches
        ce == IF stop THEN ReshuffleEpoch(r) ELSE current_epoch[r]
        se == IF stop /\ ddp THEN ce ELSE sampler_epoch[r]
        sd == IF stop THEN Append(seeds[r], se) ELSE seeds[r]
        pos == IF stop THEN 1 ELSE train_pos[r] + 1
        ms == micro_step[r] + 1
    IN  [current_epoch |-> ce, sampler_epoch |-> se, seeds |-> sd, train_pos |-> pos,
         XY |-> <<Len(sd), pos>>,
         bwd |-> Append(bwd[r], ddp /\ SyncFlag(micro_step[r])),
         micro_step |-> ms,
         pc |-> IF ms = gradient_accumulation_steps THEN "step" ELSE "micro"]

ApplyMicro(S) ==
    /\ current_epoch' = [r \in Ranks |-> IF r \in S THEN MicroResult(r).current_epoch ELSE current_epoch[r]]
    /\ sampler_epoch' = [r \in Ranks |-> IF r \in S THEN MicroResult(r).sampler_epoch ELSE sampler_epoch[r]]
    /\ seeds' = [r \in Ranks |-> IF r \in S THEN MicroResult(r).seeds ELSE seeds[r]]
    /\ train_pos' = [r \in Ranks |-> IF r \in S THEN MicroResult(r).train_pos ELSE train_pos[r]]
    /\ XY' = [r \in Ranks |-> IF r \in S THEN MicroResult(r).XY ELSE XY[r]]
    /\ bwd' = [r \in Ranks |-> IF r \in S THEN MicroResult(r).bwd ELSE bwd[r]]
    /\ micro_step' = [r \in Ranks |-> IF r \in S THEN MicroResult(r).micro_step ELSE micro_step[r]]
    /\ pc' = [r \in Ranks |-> IF r \in S THEN MicroResult(r).pc ELSE pc[r]]
    /\ UNCHANGED <<cfg, ckpt, iter_num, best_val_loss, training, opt_steps, evals,
                   last_eval, losses, crash_iter, crashes>>
    /\ UNCHANGED dataVars

\* A micro-step whose backward pass does not synchronise: the process runs it alone.
MicroStep(r) ==
    /\ pc[r] = "micro"
    /\ ~(ddp /\ SyncFlag(micro_step[r]))
    /\ ApplyMicro({r})

\* The micro-step whose backward pass all-reduces the gradients: it completes
\* when every rank takes part.
SyncedMicroStep ==
    /\ ddp
    /\ \A r \in Ranks : pc[r] = "micro" /\ SyncFlag(micro_step[r])
    /\ ApplyMicro(Ranks)

\* Faulty variant: the increment left out.
NextIterNumStuck(it) == it

\* iter_num += 1
NextIterNum(it) == it + 1

\* if iter_num > max_iters: break
LoopExit(it) == it > max_iters

\* Clipping, the optimizer step, zero_grad, logging, the increment and the exit test.
OptimizerStep(r) ==
    /\ pc[r] = "step"
    /\ opt_steps' = [opt_steps EXCEPT ![r] = @ + 1]
    /\ bwd' = [bwd EXCEPT ![r] = <<>>]
    /\ iter_num' = [iter_num EXCEPT ![r] = NextIterNum(@)]
    /\ pc' = [pc EXCEPT ![r] = IF LoopExit(NextIterNum(iter_num[r])) THEN "done" ELSE "head"]
    /\ UNCHANGED <<cfg, ckpt, best_val_loss, micro_step, current_epoch, sampler_epoch,
                   train_pos, seeds, XY, training, evals, last_eval, losses,
                   crash_iter, crashes>>
    /\ UNCHANGED dataVars

----------------------------------------------------------------------------
(* Crash and restart with init_from = 'resume' *)

Running == {"start", "head", "eval", "save", "micro", "step"}

\* The job dies: every process of the run and its memory are gone, ckpt.pt stays.
Crash ==
    /\ crashes < MaxCrashes
    /\ \E r \in Ranks : pc[r] \in Running
    /\ pc' = [r \in Ranks |-> "crashed"]
    /\ crash_iter' = iter_num[0]
    /\ crashes' = crashes + 1
    /\ iter_num' = [r \in Ranks |-> 0]
    /\ best_val_loss' = [r \in Ranks |-> InitBestValLoss]
    /\ micro_step' = [r \in Ranks |-> 0]
    /\ current_epoch' = [r \in Ranks |-> 0]
    /\ sampler_epoch' = [r \in Ranks |-> 0]
    /\ train_pos' = [r \in Ranks |-> 0]
    /\ seeds' = [r \in Ranks |-> <<>>]
    /\ XY' = [r \in Ranks |-> NoBatch]
    /\ bwd' = [r \in Ranks |-> <<>>]
    /\ training' = [r \in Ranks |-> TRUE]
    /\ opt_steps' = [r \in Ranks |-> 0]
    /\ evals' = [r \in Ranks |-> 0]
    /\ last_eval' = [r \in Ranks |-> NoDraws]
    /\ losses' = 0
    /\ UNCHANGED <<cfg, ckpt>>
    /\ UNCHANGED dataVars

\* The script is started again with init_from = 'resume': torch.load of ckpt.pt
\* (which raises when there is none), then the assignments of lines 205-206.
Restart ==
    /\ \A r \in Ranks : pc[r] = "crashed"
    /\ IF ~ckpt.present
       THEN /\ pc' = [r \in Ranks |-> "failed"]
            /\ UNCHANGED <<cfg, iter_num, best_val_loss>>
       ELSE /\ cfg' = [cfg EXCEPT !.init_from = "resume"]
            /\ iter_num' = [r \in Ranks |-> ResumeIterNum(ckpt)]
            /\ best_val_loss' = [r \in Ranks |-> ResumeBestValLoss(ckpt)]
            /\ pc' = [r \in Ranks |-> "start"]
    /\ UNCHANGED <<ckpt, crash_iter, crashes, micro_step, current_epoch, sampler_epoch,
                   train_pos, seeds, XY, bwd, training, opt_steps, evals, last_eval,
                   losses>>
    /\ UNCHANGED dataVars

----------------------------------------------------------------------------
(* Specifications *)

TrainIdle ==
    /\ cfg = [ddp |-> FALSE, world |-> 1, accum |-> 1, batches |-> 1, max_iters |-> 0,
              eval_interval |-> 1, eval_only |-> FALSE, always_save |-> TRUE,
              init_from |-> "scratch"]
    /\ ckpt = NoCkpt
    /\ iter_num = AllRanks(1, 0)
    /\ best_val_loss = AllRanks(1, InitBestValLoss)
    /\ pc = AllRanks(1, "idle")
    /\ micro_step = AllRanks(1, 0)
    /\ current_epoch = AllRanks(1, 0)
    /\ sampler_epoch = AllRanks(1, 0)
    /\ train_pos = AllRanks(1, 0)
    /\ seeds = AllRanks(1, <<>>)
    /\ XY = AllRanks(1, NoBatch)
    /\ bwd = AllRanks(1, <<>>)
    /\ training = AllRanks(1, TRUE)
    /\ opt_steps = AllRanks(1, 0)
    /\ evals = AllRanks(1, 0)
    /\ last_eval = AllRanks(1, NoDraws)
    /\ losses = 0
    /\ crash_iter = -1
    /\ crashes = 0

Init == TrainInit /\ DataIdle

RunNext ==
    \/ \E r \in Ranks : Startup(r)
    \/ \E r \in Ranks : IterBegin(r)
    \/ \E r \in Ranks : EstimateLossCall(r)
    \/ \E r \in Ranks : SaveCheckpoint(r)
    \/ \E r \in Ranks : MicroStep(r)
    \/ SyncedMicroStep
    \/ \E r \in Ranks : OptimizerStep(r)

Next ==
    \/ RunNext
    \/ Crash
    \/ Restart

\* The training run: every process runs the script to its end; a process that can
\* take a step eventually takes one.
Spec == Init /\ [][RunNext]_vars /\ WF_vars(RunNext)

\* The training run with crashes of the job and restarts from the checkpoint.
CrashSpec == Init /\ [][Next]_vars

DataSpecInit == DataInit /\ TrainIdle

DataNext ==
    \/ \E i \in 0..MaxCorpus : GetValid(i)
    \/ \E i \in (0 - MaxCorpus - 1)..(MaxCorpus + 1) : GetAny(i)

\* The dataset on its own: any corpus, any block size, any index.
DataSpec == DataSpecInit /\ [][DataNext]_vars

----------------------------------------------------------------------------
(* Claims *)

G == gradient_accumulation_steps

C2_EvalOnlyExitsAtFirstEval ==
    eval_only =>
        \A r \in Ranks :
            /\ opt_steps[r] = 0
            /\ bwd[r] = <<>>
            /\ evals[r] <= 1
            /\ pc[r] = "done" => /\ iter_num[r] = 0
                                 /\ master_process(r) => evals[r] = 1

\* C3: whatever always_save_checkpoint is, the update that follows an evaluation
\* never raises best_val_loss: it leaves the minimum of the value before and the
\* validation loss just estimated (so, by induction, of the initial value and all
\* losses so far), and a checkpoint it writes records that minimum.
C3_BestValLossIsMinimum ==
    [][(pc[0] = "save" /\ pc'[0] \in {"micro", "done"})
          => /\ best_val_loss'[0] <= best_val_loss[0]
             /\ best_val_loss'[0] = Min(best_val_loss[0], losses)
             /\ ckpt' # ckpt => ckpt'.best_val_loss = Min(best_val_loss[0], losses)]_vars

\* C4: in a distributed run the backward pass of micro-step i of a window is
\* synchronised exactly when i is the last one (i = G), and a process reaches its
\* optimizer step with the G backward passes of the window behind it.
C4_SyncOnlyOnLastMicroStep ==
    ddp =>
        \A r \in Ranks :
            /\ Len(bwd[r]) <= G
            /\ \A i \in 1..Len(bwd[r]) : bwd[r][i] = (i = G)
            /\ pc[r] = "step" => Len(bwd[r]) = G
            /\ pc[r] \in {"start", "head", "eval", "save"} => bwd[r] = <<>>

\* C4 witness: a distributed process about to take its second optimizer step, G >= 2.
C4_Witness ==
    /\ ddp
    /\ G >= 2
    /\ \E r \in Ranks : /\ pc[r] = "step"
                        /\ opt_steps[r] >= 1
                        /\ bwd[r][G]
                        /\ ~bwd[r][1]

\* C5: __getitem__ fails with an IndexError for every index outside [0, len()).
C5_IndexErrorOutsideRange ==
    (item.kind # "none" /\ idx \notin 0..(DatasetLen - 1)) => item.kind = "IndexError"

\* C6: for an index in [0, len()), input and target have exactly block_size tokens,
\* target[i] = input[i+1], target[i] = corpus[index+i+1], and the last position read,
\* index + block_size, is inside the corpus.
C6_ValidWindow ==
    (item.kind # "none" /\ idx \in 0..(DatasetLen - 1))
        => /\ item.kind = "window"
           /\ Len(item.x) = block_size
           /\ Len(item.y) = block_size
           /\ \A i \in 1..(block_size - 1) : item.y[i] = item.x[i + 1]
           /\ \A i \in 1..block_size : item.x[i] = data[idx + i]
           /\ \A i \in 1..block_size : item.y[i] = data[idx + i + 1]
           /\ idx + block_size < Len(data)

\* C6 witness: the last valid window of a corpus, block_size >= 2, with two different tokens in it.
C6_Witness ==
    /\ item.kind = "window"
    /\ block_size >= 2
    /\ idx > 0
    /\ idx = DatasetLen - 1
    /\ item.x[1] # item.y[block_size]

\* C7: without crashes the loop terminates on every process; a process leaves the
\* loop only right after the increment made iter_num > max_iters, or at the eval_only
\* test with iter_num = 0; iter_num changes only at the end of an outer iteration,
\* and then by exactly 1.
C7_Termination ==
    /\ <>[](\A r \in Ranks : pc[r] = "done")
    /\ [][\A r \in Ranks :
            (pc[r] # "done" /\ pc'[r] = "done")
                => \/ /\ pc[r] = "step"
                      /\ iter_num'[r] = iter_num[r] + 1
                      /\ iter_num'[r] > max_iters
                   \/ /\ pc[r] \in {"head", "save"}
                      /\ eval_only
                      /\ iter_num[r] = 0
                      /\ iter_num'[r] = 0]_vars
    /\ [][\A r \in Ranks :
            /\ iter_num'[r] # iter_num[r] => pc[r] = "step"
            /\ (pc[r] = "step" /\ pc'[r] # "step") => iter_num'[r] = iter_num[r] + 1]_vars

\* C7 witness: a resumed run that ended at the iteration ceiling after several iterations.
C7_Witness ==
    /\ \A r \in Ranks : pc[r] = "done"
    /\ init_from = "resume"
    /\ iter_num[0] = max_iters + 1
    /\ opt_steps[0] >= 2

\* C8: a call of estimate_loss leaves iter_num, best_val_loss, the training
\* iterator (its position and its pass) and the in-flight batch as they were, returns
\* with the model in training mode, and has drawn eval_iters batches per split.
C8_EstimateLossFrame ==
    [][\A r \in Ranks :
          (pc[r] = "eval" /\ pc'[r] = "save")
              => /\ iter_num'[r] = iter_num[r]
                 /\ best_val_loss'[r] = best_val_loss[r]
                 /\ training'[r]
                 /\ train_pos'[r] = train_pos[r]
                 /\ seeds'[r] = seeds[r]
                 /\ XY'[r] = XY[r]
                 /\ last_eval'[r] = [train |-> eval_iters, val |-> eval_iters]]_vars

\* C8 witness: after an estimate that exhausted the training loader midway, in an iteration
\* later than the first, with a batch in flight.
C8_Witness ==
    \E r \in Ranks :
        /\ pc[r] = "save"
        /\ NumBatches < eval_iters
        /\ opt_steps[r] >= 1
        /\ XY[r] # NoBatch
        /\ last_eval[r].train = eval_iters

\* C9: in a distributed run the sampler epochs that seed the successive passes of
\* a process over the training data are strictly increasing.
C9_NewEpochEveryPass ==
    ddp =>
        \A r \in Ranks :
            \A n \in 1..(Len(seeds[r]) - 1) : seeds[r][n] < seeds[r][n + 1]

\* C10: in a distributed run the n-th pass over the training data is seeded with
\* the same epoch on every rank.
C10_SameEpochOnAllRanks ==
    ddp =>
        \A r1 \in Ranks : \A r2 \in Ranks :
            \A n \in 1..Min(Len(seeds[r1]), Len(seeds[r2])) : seeds[r1][n] = seeds[r2][n]

\* C10 witness: two ranks, each in at least its second pass, the primary having evaluated
\* (and so having called set_epoch on the training sampler) in between.
C10_Witness ==
    /\ ddp
    /\ ddp_world_size >= 2
    /\ evals[0] >= 2
    /\ Len(seeds[0]) >= 2
    /\ Len(seeds[1]) >= 2
    /\ seeds[0][2] >= 1

====
